---- MODULE Spec2Model ----
(***************************************************************************)
(* Model of the R binding of nvbench (R/src/nvbenchr.cpp): the process-    *)
(* wide registry, the tagged non-owning handles, the exported entry points *)
(* and the callbacks the execution engine makes into host code during a    *)
(* run.  The execution engine is the external library: its steps appear    *)
(* here as far as the binding calls it or is called by it, and what it     *)
(* decides on its own is a nondeterministic choice.                        *)
(***************************************************************************)
EXTENDS Naturals, Integers, Sequences, FiniteSets, TLC

\* ------------------------------------------------------------------ bounds
\* Benchmarks the host registers at most.
MaxBenchmarks == 2
\* Handles the host code keeps at the same time.
MaxHandles == 1
\* Nesting depth of state.exec calls (an exec made from inside a launcher).
MaxExec == 1

\* ----------------------------------------------------------- native objects
\* Benchmark i of the manager, its clone inside the run, the state the engine
\* makes for it and that state's stream; the launch of exec depth d, its stream.
NULL == <<"null", 0>>
NoScope == <<"none", 0>>
BenchObj(i) == <<"bench", i>>
CloneObj(i) == <<"clone", i>>
StateObj(i) == <<"state", i>>
StateStream(i) == <<"sstream", i>>
LaunchObj(d) == <<"launch", d>>
LaunchStream(d) == <<"lstream", d>>
\* The object of a by-value parameter: dead once the callee returns.
Temporary == <<"temporary", 0>>

\* ------------------------------------------------------- host values (SEXP)
Sexp(t, n, v) ==
  [t |-> t, n |-> n, v |-> v, cls |-> "", addr |-> NULL, fin |-> FALSE,
   scope |-> NoScope]

\* An external pointer: its class attribute ("" when it has none), the stored
\* address, whether a delete finalizer is registered on it. scope is not part
\* of the value: it records the native object whose callback the handle was
\* made in (NoScope for a handle not tied to a callback).
Xptr(cls, addr, fin, scope) ==
  [t |-> "EXTPTRSXP", n |-> 1, v |-> "", cls |-> cls, addr |-> addr,
   fin |-> fin, scope |-> scope]

FnVal == Sexp("CLOSXP", 1, "f")
Str(s) == Sexp("STRSXP", 1, s)
StrVec2 == Sexp("STRSXP", 2, "a")
NumVal == Sexp("REALSXP", 1, "1")
IntVal == Sexp("INTSXP", 1, "1")
LglVal(b) == Sexp("LGLSXP", 1, IF b THEN "TRUE" ELSE "FALSE")
NilVal == Sexp("NILSXP", 0, "")

Names == {"", "a"}


\* --------------------------------------------------------- entry-point table
\* The extern "C" SEXP functions of nvbenchr.cpp with the number of SEXP
\* parameters each is defined with.
ExportedFunctions ==
  { [name |-> "nvbenchr_register", params |-> 2],
    [name |-> "nvbenchr_run_all_benchmarks", params |-> 1],
    [name |-> "nvbenchr_benchmark_get_name", params |-> 1],
    [name |-> "nvbenchr_benchmark_add_int64_axis", params |-> 3],
    [name |-> "nvbenchr_benchmark_add_int64_power_of_two_axis", params |-> 3],
    [name |-> "nvbenchr_benchmark_add_float64_axis", params |-> 3],
    [name |-> "nvbenchr_benchmark_add_string_axis", params |-> 3],
    [name |-> "nvbenchr_benchmark_set_name", params |-> 2],
    [name |-> "nvbenchr_benchmark_set_is_cpu_only", params |-> 2],
    [name |-> "nvbenchr_benchmark_set_run_once", params |-> 2],
    [name |-> "nvbenchr_benchmark_set_skip_time", params |-> 2],
    [name |-> "nvbenchr_benchmark_set_timeout", params |-> 2],
    [name |-> "nvbenchr_benchmark_set_throttle_threshold", params |-> 2],
    [name |-> "nvbenchr_benchmark_set_throttle_recovery_delay", params |-> 2],
    [name |-> "nvbenchr_benchmark_set_stopping_criterion", params |-> 2],
    [name |-> "nvbenchr_benchmark_set_criterion_param_int64", params |-> 3],
    [name |-> "nvbenchr_benchmark_set_criterion_param_float64", params |-> 3],
    [name |-> "nvbenchr_benchmark_set_criterion_param_string", params |-> 3],
    [name |-> "nvbenchr_benchmark_set_min_samples", params |-> 2],
    [name |-> "nvbenchr_state_has_device", params |-> 1],
    [name |-> "nvbenchr_state_has_printers", params |-> 1],
    [name |-> "nvbenchr_state_get_device", params |-> 1],
    [name |-> "nvbenchr_state_get_stream", params |-> 1],
    [name |-> "nvbenchr_state_get_int64", params |-> 2],
    [name |-> "nvbenchr_state_get_int64_or_default", params |-> 3],
    [name |-> "nvbenchr_state_get_float64", params |-> 2],
    [name |-> "nvbenchr_state_get_float64_or_default", params |-> 3],
    [name |-> "nvbenchr_state_get_string", params |-> 2],
    [name |-> "nvbenchr_state_get_string_or_default", params |-> 3],
    [name |-> "nvbenchr_state_add_element_count", params |-> 3],
    [name |-> "nvbenchr_state_set_element_count", params |-> 2],
    [name |-> "nvbenchr_state_get_element_count", params |-> 1],
    [name |-> "nvbenchr_state_skip", params |-> 2],
    [name |-> "nvbenchr_state_is_skipped", params |-> 1],
    [name |-> "nvbenchr_state_get_skip_reason", params |-> 1],
    [name |-> "nvbenchr_state_add_global_memory_reads", params |-> 3],
    [name |-> "nvbenchr_state_add_global_memory_writes", params |-> 3],
    [name |-> "nvbenchr_state_get_benchmark", params |-> 1],
    [name |-> "nvbenchr_state_get_throttle_threshold", params |-> 1],
    [name |-> "nvbenchr_state_set_throttle_threshold", params |-> 2],
    [name |-> "nvbenchr_state_get_min_samples", params |-> 1],
    [name |-> "nvbenchr_state_set_min_samples", params |-> 2],
    [name |-> "nvbenchr_state_get_disable_blocking_kernel", params |-> 1],
    [name |-> "nvbenchr_state_set_disable_blocking_kernel", params |-> 2],
    [name |-> "nvbenchr_state_get_run_once", params |-> 1],
    [name |-> "nvbenchr_state_set_run_once", params |-> 2],
    [name |-> "nvbenchr_state_get_timeout", params |-> 1],
    [name |-> "nvbenchr_state_set_timeout", params |-> 2],
    [name |-> "nvbenchr_state_get_blocking_kernel_timeout", params |-> 1],
    [name |-> "nvbenchr_state_set_blocking_kernel_timeout", params |-> 2],
    [name |-> "nvbenchr_state_collect_cupti_metrics", params |-> 1],
    [name |-> "nvbenchr_state_is_cupti_required", params |-> 1],
    [name |-> "nvbenchr_state_exec", params |-> 4],
    [name |-> "nvbenchr_state_get_short_description", params |-> 1],
    [name |-> "nvbenchr_state_add_summary", params |-> 3],
    [name |-> "nvbenchr_state_get_axis_values", params |-> 1],
    [name |-> "nvbenchr_state_get_axis_values_as_string", params |-> 1],
    [name |-> "nvbenchr_state_get_stopping_criterion", params |-> 1],
    [name |-> "nvbenchr_launch_get_stream", params |-> 1],
    [name |-> "nvbenchr_stream_addressof", params |-> 1] }

\* static const R_CallMethodDef CallEntries[] of nvbenchr.cpp, NULL entry included.
CallEntriesInit ==
  << [name |-> "nvbenchr_register", fun |-> "nvbenchr_register", numArgs |-> 2],
     [name |-> "nvbenchr_run_all_benchmarks", fun |-> "nvbenchr_run_all_benchmarks", numArgs |-> 1],
     [name |-> "nvbenchr_benchmark_get_name", fun |-> "nvbenchr_benchmark_get_name", numArgs |-> 1],
     [name |-> "nvbenchr_benchmark_add_int64_axis", fun |-> "nvbenchr_benchmark_add_int64_axis", numArgs |-> 3],
     [name |-> "nvbenchr_benchmark_add_int64_power_of_two_axis", fun |-> "nvbenchr_benchmark_add_int64_power_of_two_axis", numArgs |-> 3],
     [name |-> "nvbenchr_benchmark_add_float64_axis", fun |-> "nvbenchr_benchmark_add_float64_axis", numArgs |-> 3],
     [name |-> "nvbenchr_benchmark_add_string_axis", fun |-> "nvbenchr_benchmark_add_string_axis", numArgs |-> 3],
     [name |-> "nvbenchr_benchmark_set_name", fun |-> "nvbenchr_benchmark_set_name", numArgs |-> 2],
     [name |-> "nvbenchr_benchmark_set_is_cpu_only", fun |-> "nvbenchr_benchmark_set_is_cpu_only", numArgs |-> 2],
     [name |-> "nvbenchr_benchmark_set_run_once", fun |-> "nvbenchr_benchmark_set_run_once", numArgs |-> 2],
     [name |-> "nvbenchr_benchmark_set_skip_time", fun |-> "nvbenchr_benchmark_set_skip_time", numArgs |-> 2],
     [name |-> "nvbenchr_benchmark_set_timeout", fun |-> "nvbenchr_benchmark_set_timeout", numArgs |-> 2],
     [name |-> "nvbenchr_benchmark_set_throttle_threshold", fun |-> "nvbenchr_benchmark_set_throttle_threshold", numArgs |-> 2],
     [name |-> "nvbenchr_benchmark_set_throttle_recovery_delay", fun |-> "nvbenchr_benchmark_set_throttle_recovery_delay", numArgs |-> 2],
     [name |-> "nvbenchr_benchmark_set_stopping_criterion", fun |-> "nvbenchr_benchmark_set_stopping_criterion", numArgs |-> 2],
     [name |-> "nvbenchr_benchmark_set_criterion_param_int64", fun |-> "nvbenchr_benchmark_set_criterion_param_int64", numArgs |-> 3],
     [name |-> "nvbenchr_benchmark_set_criterion_param_float64", fun |-> "nvbenchr_benchmark_set_criterion_param_float64", numArgs |-> 3],
     [name |-> "nvbenchr_benchmark_set_criterion_param_string", fun |-> "nvbenchr_benchmark_set_criterion_param_string", numArgs |-> 3],
     [name |-> "nvbenchr_benchmark_set_min_samples", fun |-> "nvbenchr_benchmark_set_min_samples", numArgs |-> 2],
     [name |-> "nvbenchr_state_has_device", fun |-> "nvbenchr_state_has_device", numArgs |-> 1],
     [name |-> "nvbenchr_state_has_printers", fun |-> "nvbenchr_state_has_printers", numArgs |-> 1],
     [name |-> "nvbenchr_state_get_device", fun |-> "nvbenchr_state_get_device", numArgs |-> 1],
     [name |-> "nvbenchr_state_get_stream", fun |-> "nvbenchr_state_get_stream", numArgs |-> 1],
     [name |-> "nvbenchr_state_get_int64", fun |-> "nvbenchr_state_get_int64", numArgs |-> 2],
     [name |-> "nvbenchr_state_get_int64_or_default", fun |-> "nvbenchr_state_get_int64_or_default", numArgs |-> 3],
     [name |-> "nvbenchr_state_get_float64", fun |-> "nvbenchr_state_get_float64", numArgs |-> 2],
     [name |-> "nvbenchr_state_get_float64_or_default", fun |-> "nvbenchr_state_get_float64_or_default", numArgs |-> 3],
     [name |-> "nvbenchr_state_get_string", fun |-> "nvbenchr_state_get_string", numArgs |-> 2],
     [name |-> "nvbenchr_state_get_string_or_default", fun |-> "nvbenchr_state_get_string_or_default", numArgs |-> 3],
     [name |-> "nvbenchr_state_add_element_count", fun |-> "nvbenchr_state_add_element_count", numArgs |-> 3],
     [name |-> "nvbenchr_state_set_element_count", fun |-> "nvbenchr_state_set_element_count", numArgs |-> 2],
     [name |-> "nvbenchr_state_get_element_count", fun |-> "nvbenchr_state_get_element_count", numArgs |-> 1],
     [name |-> "nvbenchr_state_skip", fun |-> "nvbenchr_state_skip", numArgs |-> 2],
     [name |-> "nvbenchr_state_is_skipped", fun |-> "nvbenchr_state_is_skipped", numArgs |-> 1],
     [name |-> "nvbenchr_state_get_skip_reason", fun |-> "nvbenchr_state_get_skip_reason", numArgs |-> 1],
     [name |-> "nvbenchr_state_add_global_memory_reads", fun |-> "nvbenchr_state_add_global_memory_reads", numArgs |-> 3],
     [name |-> "nvbenchr_state_add_global_memory_writes", fun |-> "nvbenchr_state_add_global_memory_writes", numArgs |-> 3],
     [name |-> "nvbenchr_state_get_benchmark", fun |-> "nvbenchr_state_get_benchmark", numArgs |-> 1],
     [name |-> "nvbenchr_state_get_throttle_threshold", fun |-> "nvbenchr_state_get_throttle_threshold", numArgs |-> 1],
     [name |-> "nvbenchr_state_set_throttle_threshold", fun |-> "nvbenchr_state_set_throttle_threshold", numArgs |-> 2],
     [name |-> "nvbenchr_state_get_min_samples", fun |-> "nvbenchr_state_get_min_samples", numArgs |-> 1],
     [name |-> "nvbenchr_state_set_min_samples", fun |-> "nvbenchr_state_set_min_samples", numArgs |-> 2],
     [name |-> "nvbenchr_state_get_disable_blocking_kernel", fun |-> "nvbenchr_state_get_disable_blocking_kernel", numArgs |-> 1],
     [name |-> "nvbenchr_state_set_disable_blocking_kernel", fun |-> "nvbenchr_state_set_disable_blocking_kernel", numArgs |-> 2],
     [name |-> "nvbenchr_state_get_run_once", fun |-> "nvbenchr_state_get_run_once", numArgs |-> 1],
     [name |-> "nvbenchr_state_set_run_once", fun |-> "nvbenchr_state_set_run_once", numArgs |-> 2],
     [name |-> "nvbenchr_state_get_timeout", fun |-> "nvbenchr_state_get_timeout", numArgs |-> 1],
     [name |-> "nvbenchr_state_set_timeout", fun |-> "nvbenchr_state_set_timeout", numArgs |-> 2],
     [name |-> "nvbenchr_state_get_blocking_kernel_timeout", fun |-> "nvbenchr_state_get_blocking_kernel_timeout", numArgs |-> 1],
     [name |-> "nvbenchr_state_set_blocking_kernel_timeout", fun |-> "nvbenchr_state_set_blocking_kernel_timeout", numArgs |-> 2],
     [name |-> "nvbenchr_state_collect_cupti_metrics", fun |-> "nvbenchr_state_collect_cupti_metrics", numArgs |-> 1],
     [name |-> "nvbenchr_state_is_cupti_required", fun |-> "nvbenchr_state_is_cupti_required", numArgs |-> 1],
     [name |-> "nvbenchr_state_exec", fun |-> "nvbenchr_state_exec", numArgs |-> 4],
     [name |-> "nvbenchr_state_get_short_description", fun |-> "nvbenchr_state_get_short_description", numArgs |-> 1],
     [name |-> "nvbenchr_state_add_summary", fun |-> "nvbenchr_state_add_summary", numArgs |-> 3],
     [name |-> "nvbenchr_state_get_axis_values", fun |-> "nvbenchr_state_get_axis_values", numArgs |-> 1],
     [name |-> "nvbenchr_state_get_axis_values_as_string", fun |-> "nvbenchr_state_get_axis_values_as_string", numArgs |-> 1],
     [name |-> "nvbenchr_state_get_stopping_criterion", fun |-> "nvbenchr_state_get_stopping_criterion", numArgs |-> 1],
     [name |-> "nvbenchr_launch_get_stream", fun |-> "nvbenchr_launch_get_stream", numArgs |-> 1],
     [name |-> "nvbenchr_stream_addressof", fun |-> "nvbenchr_stream_addressof", numArgs |-> 1],
     [name |-> "NULL", fun |-> "NULL", numArgs |-> 0] >>

\* The same initializer with nvbenchr_state_exec declared with 3 arguments, as
\* before its sync parameter.
CallEntriesStaleArity ==
  [i \in DOMAIN CallEntriesInit |->
     IF CallEntriesInit[i].name = "nvbenchr_state_exec"
     THEN [CallEntriesInit[i] EXCEPT !.numArgs = 3]
     ELSE CallEntriesInit[i]]

CallEntries == CallEntriesInit

\* throughputlib/src/RcppExports.cpp: the one declared function and its table.
ThroughputFunctions ==
  { [name |-> "nvbenchr_example_throughput_native", params |-> 4] }

ThroughputCallEntries ==
  << [name |-> "nvbenchr_example_throughput_native",
      fun |-> "nvbenchr_example_throughput_native", numArgs |-> 4],
     [name |-> "NULL", fun |-> "NULL", numArgs |-> 0] >>

\* R_registerRoutines(dll, NULL, table, NULL, NULL): the host runtime counts
\* the entries before the first one whose name is NULL and takes those.
RECURSIVE CountRoutines(_, _)
CountRoutines(table, i) ==
  IF i > Len(table) \/ table[i].name = "NULL" THEN i - 1
  ELSE CountRoutines(table, i + 1)

RegisterRoutines(table) == CountRoutines(table, 1)

\* ------------------------------------------------------------------- state
VARIABLES
  loaded,           \* R_init_nvbenchr has been called
  routines,         \* how many entries of CallEntries the host runtime took
  tpRoutines,       \* how many it took of the throughput example's table
  global_registry,  \* the unique_ptr is non-null
  m_finalized,      \* GlobalBenchmarkRegistry::m_finalized
  benchmarks,       \* benchmark_manager's list: << [id, name] >>
  live,             \* the native objects that exist
  freed,            \* the native objects deallocated through a handle
  handles,          \* the handles host code keeps
  stack,            \* the native/host call stack of the run in progress
  execStarted,      \* how often the benchmark execution was started
  summaries,        \* << state, tag >> for every summary tag a state carries
  runResult,        \* how the run went: "none", "running", "ok", "failed"
  r_function_holder, \* of the host function: [live: the holder objects that
                    \* exist, preserved: R_PreserveObject calls not yet
                    \* matched by R_ReleaseObject]
  last              \* the latest entry-point call and its outcome

vars == << loaded, routines, tpRoutines, global_registry, m_finalized,
           benchmarks, live, freed, handles, stack, execStarted, summaries,
           runResult, r_function_holder, last >>

\* What a call finds on entry.
Pre == [reg |-> global_registry, fin |-> m_finalized, nb |-> Len(benchmarks)]

Top == stack[Len(stack)]
Pop == SubSeq(stack, 1, Len(stack) - 1)

\* Host code runs at top level and inside a benchmark or launcher callback.
HostInControl == IF stack = << >> THEN TRUE ELSE Top.k \in {"cb", "launcher"}

ExecDepth == Cardinality({i \in DOMAIN stack : stack[i].k = "exec"})

\* The callback that received the handle, or the handle it was derived from,
\* is still on the stack.
InScope(arg) ==
  /\ arg.t = "EXTPTRSXP"
  /\ \E i \in DOMAIN stack : stack[i].k \in {"cb", "launcher"} /\ stack[i].obj = arg.scope

\* An entry-point call: status "error" is Rcpp::stop raised by the binding,
\* "ok" a normal return, "running" an accepted call still on the stack,
\* "escaped" an exception of the external library (or of a callback) leaving
\* the entry point as it was thrown, "ub" a use of a pointer whose object is
\* gone or of another type. lib: the call reached the external library.
\* arg: the argument in the handle position; want: the class asked of it;
\* ref: the native pointer the unwrap yielded; tag: the exec_tag flags given
\* to state.exec; out: the value returned; args: the other arguments. pre,
\* inScope and refLive describe the moment of the call.
Outcome(entry, status, msg, lib, arg, want, ref, out) ==
  [entry |-> entry, status |-> status, msg |-> msg, lib |-> lib, arg |-> arg,
   want |-> want, ref |-> ref, tag |-> {}, out |-> out, args |-> << >>,
   pre |-> Pre, inScope |-> InScope(arg), refLive |-> ref \in live]

\* The same with the other arguments of the call noted.
With(o, args) == [o EXCEPT !.args = args]

Rejected(entry, msg, arg, want) ==
  Outcome(entry, "error", msg, FALSE, arg, want, NULL, NilVal)

NoCall ==
  [entry |-> "none", status |-> "ok", msg |-> "", lib |-> FALSE, arg |-> NilVal,
   want |-> "", ref |-> NULL, tag |-> {}, out |-> NilVal, args |-> << >>,
   pre |-> [reg |-> FALSE, fin |-> FALSE, nb |-> 0], inScope |-> FALSE,
   refLive |-> FALSE]

\* A stack frame: the engine inside run ("run", i: the benchmark it is at) or
\* inside state.exec ("exec", obj: its launch), host code inside a benchmark
\* callback ("cb", obj: the state) or a launcher ("launcher", obj: the
\* launch). call: the entry-point call a run or exec frame belongs to.
Frame(k, obj, i, call) == [k |-> k, obj |-> obj, i |-> i, call |-> call]

\* ---------------------------------------------------------------- helpers
\* wrap_ptr: Rcpp::XPtr<T> xp(ptr, false) registers no delete finalizer.
WrapPtrOwning(ptr, cls_name, scope) == Xptr(cls_name, ptr, TRUE, scope)

WrapPtr(ptr, cls_name, scope) == Xptr(cls_name, ptr, FALSE, scope)

\* unwrap_ptr with the class comparison left out.
UnwrapPtrNoClassCheck(obj, expected_class) ==
  IF obj.t # "EXTPTRSXP"
  THEN [ok |-> FALSE, msg |-> "Expected external pointer", ref |-> NULL]
  ELSE IF obj.addr = NULL
  THEN [ok |-> FALSE, msg |-> "Null pointer", ref |-> NULL]
  ELSE [ok |-> TRUE, msg |-> "", ref |-> obj.addr]

\* unwrap_ptr with the null test left out.
UnwrapPtrNoNullCheck(obj, expected_class) ==
  IF obj.t # "EXTPTRSXP"
  THEN [ok |-> FALSE, msg |-> "Expected external pointer", ref |-> NULL]
  ELSE IF obj.cls = ""
  THEN [ok |-> FALSE, msg |-> "Invalid external pointer class", ref |-> NULL]
  ELSE IF expected_class # "" /\ obj.cls # expected_class
  THEN [ok |-> FALSE, msg |-> "Unexpected pointer class", ref |-> NULL]
  ELSE [ok |-> TRUE, msg |-> "", ref |-> obj.addr]

UnwrapPtr(obj, expected_class) ==
  IF obj.t # "EXTPTRSXP"
  THEN [ok |-> FALSE, msg |-> "Expected external pointer", ref |-> NULL]
  ELSE IF obj.cls = ""
  THEN [ok |-> FALSE, msg |-> "Invalid external pointer class", ref |-> NULL]
  ELSE IF expected_class # "" /\ obj.cls # expected_class
  THEN [ok |-> FALSE, msg |-> "Unexpected pointer class", ref |-> NULL]
  ELSE IF obj.addr = NULL
  THEN [ok |-> FALSE, msg |-> "Null pointer", ref |-> NULL]
  ELSE [ok |-> TRUE, msg |-> "", ref |-> obj.addr]

bench_from_xptr(bench) == UnwrapPtr(bench, "nvbench_benchmark")
state_from_xptr(state) == UnwrapPtr(state, "nvbench_state")
launch_from_xptr(launch) == UnwrapPtr(launch, "nvbench_launch")
stream_from_xptr(stream) == UnwrapPtr(stream, "nvbench_stream")

\* wrap_stream_xptr taking the stream by value: the handle holds the address
\* of the parameter.
WrapStreamXptrByValue(stream, scope) == WrapPtr(Temporary, "nvbench_stream", scope)

wrap_stream_xptr(stream, scope) == WrapPtr(stream, "nvbench_stream", scope)

\* Rcpp::as<std::string>: a character vector of length one.
as_string(s) == s.t = "STRSXP" /\ s.n = 1
\* Rcpp::as<std::vector<std::string>>: a character vector.
as_string_vec(s) == s.t = "STRSXP"
\* Rcpp::as<bool>: one element of a type that coerces to logical.
as_bool(s) == s.n = 1 /\ s.t \in {"LGLSXP", "INTSXP", "REALSXP", "RAWSXP"}
\* Rf_isFunction
IsFunction(s) == s.t \in {"CLOSXP", "BUILTINSXP", "SPECIALSXP"}

\* if (!global_registry) with the test reversed to a no-op.
RegistryMissingNever == FALSE

RegistryMissing == ~global_registry

\* The handles a call can be given: the ones host code keeps, the argument of
\* every callback on the stack, and what the host runtime makes of the handle
\* of the first registered benchmark by dropping its class attribute
\* (Unclassed) or by a save and restore, which leaves the address null
\* (Restored); or no handle at all.
FrameHandle(f) ==
  CASE f.k = "cb" -> WrapPtr(f.obj, "nvbench_state", f.obj)
    [] f.k = "launcher" -> WrapPtr(f.obj, "nvbench_launch", f.obj)

FrameHandles ==
  {FrameHandle(stack[i]) : i \in {j \in DOMAIN stack : stack[j].k \in {"cb", "launcher"}}}

HeldHandles == handles \cup FrameHandles

Unclassed == Xptr("", BenchObj(1), FALSE, NoScope)
Restored == Xptr("nvbench_benchmark", NULL, FALSE, NoScope)

HandleArgs == HeldHandles \cup {Unclassed, Restored, NumVal}

\* Host code keeps the handle it was given, or lets it go.
Keep(h) ==
  \/ handles' = handles
  \/ /\ Cardinality(handles) < MaxHandles
     /\ h \notin handles
     /\ handles' = handles \cup {h}

\* ------------------------------------------------------------------- Init
Init ==
  /\ loaded = FALSE
  /\ routines = 0
  /\ tpRoutines = 0
  /\ global_registry = FALSE
  /\ m_finalized = FALSE
  /\ benchmarks = << >>
  /\ live = {}
  /\ freed = {}
  /\ handles = {}
  /\ stack = << >>
  /\ execStarted = 0
  /\ summaries = {}
  /\ runResult = "none"
  /\ r_function_holder = [live |-> 0, preserved |-> 0]
  /\ last = NoCall

\* ----------------------------------------------------------- library load
\* R_init_nvbenchr: the table is registered first; cuInit or the manager's
\* initialize may throw, and then the registry is never made.
R_init_nvbenchr ==
  /\ ~loaded
  /\ stack = << >>
  /\ loaded' = TRUE
  /\ routines' = RegisterRoutines(CallEntries)
  /\ \E ok \in BOOLEAN :
       /\ global_registry' = ok
       /\ last' = Outcome("R_init_nvbenchr", IF ok THEN "ok" ELSE "escaped", "",
                          TRUE, NilVal, "", NULL, NilVal)
  /\ UNCHANGED << r_function_holder,
                  runResult, tpRoutines, m_finalized, benchmarks, live, freed, handles,
                  stack, execStarted, summaries >>

R_init_nvbenchr_throughput ==
  /\ tpRoutines = 0
  /\ HostInControl
  /\ tpRoutines' = RegisterRoutines(ThroughputCallEntries)
  /\ UNCHANGED << r_function_holder,
                  runResult, loaded, routines, global_registry, m_finalized, benchmarks,
                  live, freed, handles, stack, execStarted, summaries, last >>

\* A call that changes nothing but its own outcome.
OnlyOutcome(o) ==
  /\ last' = o
  /\ UNCHANGED << r_function_holder,
                  runResult, loaded, routines, tpRoutines, global_registry, m_finalized,
                  benchmarks, live, freed, handles, stack, execStarted,
                  summaries >>

\* ---------------------------------------------------------------- registry
\* r_function_holder(const r_function_holder &) left to the compiler: fn is
\* copied and not preserved.
HolderCopyDefaulted(h) == [h EXCEPT !.live = @ + 1]

\* explicit r_function_holder(SEXP f) : fn(f) { R_PreserveObject(fn); }
HolderConstruct(h) == [live |-> h.live + 1, preserved |-> h.preserved + 1]

\* r_function_holder(const r_function_holder &other) : fn(other.fn)
\* { R_PreserveObject(fn); }
HolderCopy(h) == [live |-> h.live + 1, preserved |-> h.preserved + 1]

\* ~r_function_holder() { R_ReleaseObject(fn); }
HolderDestroy(h) == [live |-> h.live - 1, preserved |-> h.preserved - 1]

\* n holders copied, n holders destroyed.
RECURSIVE HolderCopies(_, _)
HolderCopies(h, n) == IF n = 0 THEN h ELSE HolderCopies(HolderCopy(h), n - 1)

RECURSIVE HolderDestroys(_, _)
HolderDestroys(h, n) == IF n = 0 THEN h ELSE HolderDestroys(HolderDestroy(h), n - 1)

\* add_bench after its tests: exec is constructed from fn, the benchmark is
\* made with a copy of exec, and exec is destroyed when add_bench returns.
AddBenchHolders(h) == HolderDestroy(HolderCopy(HolderConstruct(h)))

\* add_bench without the m_finalized test.
AddBenchCheckNoFinalized(fn) ==
  IF ~IsFunction(fn) THEN "Benchmark must be a function" ELSE ""

\* add_bench without the Rf_isFunction test.
AddBenchCheckNoFunction(fn) ==
  IF m_finalized THEN "Cannot register benchmarks after execution" ELSE ""

\* GlobalBenchmarkRegistry::add_bench, the two tests before the registration:
\* the message of the Rcpp::stop taken, "" when neither is.
AddBenchCheck(fn) ==
  IF m_finalized THEN "Cannot register benchmarks after execution"
  ELSE IF ~IsFunction(fn) THEN "Benchmark must be a function"
  ELSE ""

\* run without the m_finalized test.
RunCheckNoFinalized ==
  IF benchmarks = << >> THEN "No benchmarks registered" ELSE ""

\* run with m_finalized set only once the execution has returned: nothing is
\* marked when the execution throws.
RunMarksFinalizedAfter == FALSE

\* run without the test of the empty benchmark list.
RunCheckNoEmpty ==
  IF m_finalized THEN "Benchmarks already executed" ELSE ""

\* GlobalBenchmarkRegistry::run, the two tests before m_finalized is set.
RunCheck ==
  IF benchmarks = << >> THEN "No benchmarks registered"
  ELSE IF m_finalized THEN "Benchmarks already executed"
  ELSE ""

\* m_finalized = true stands before the try block.
RunMarksFinalizedFirst == TRUE

\* name.empty() ? r_string("benchmark") : name
DefaultedName(name) == IF name = "" THEN "benchmark" ELSE name

nvbenchr_register(fn, name) ==
  /\ HostInControl
  /\ LET e == "nvbenchr_register"
         b == BenchObj(Len(benchmarks) + 1)
         h == WrapPtr(b, "nvbench_benchmark", NoScope)
         Stop(msg) == With(Rejected(e, msg, NilVal, ""), <<fn, name>>)
     IN IF RegistryMissing
        THEN OnlyOutcome(Stop("nvbenchr registry is not initialized"))
        ELSE IF ~as_string(name)
        THEN OnlyOutcome(Stop("Expected string for name"))
        ELSE IF AddBenchCheck(fn) # ""
        THEN OnlyOutcome(Stop(AddBenchCheck(fn)))
        ELSE /\ Len(benchmarks) < MaxBenchmarks
             /\ benchmarks' = Append(benchmarks,
                   [id |-> b, name |-> DefaultedName(name.v)])
             /\ live' = live \cup {b}
             /\ r_function_holder' = AddBenchHolders(r_function_holder)
             /\ Keep(h)
             /\ last' = With(Outcome(e, "ok", "", TRUE, NilVal, "", NULL, h),
                             <<fn, name>>)
             /\ UNCHANGED << runResult, loaded, routines, tpRoutines,
                             global_registry, m_finalized, freed, stack,
                             execStarted, summaries >>

nvbenchr_run_all_benchmarks(argv) ==
  /\ HostInControl
  /\ LET e == "nvbenchr_run_all_benchmarks"
         Stop(msg) == With(Rejected(e, msg, NilVal, ""), <<argv>>)
         call == With(Outcome(e, "running", "", TRUE, NilVal, "", NULL, NilVal),
                      <<argv>>)
     IN IF RegistryMissing
        THEN OnlyOutcome(Stop("nvbenchr registry is not initialized"))
        ELSE IF ~as_string_vec(argv)
        THEN OnlyOutcome(Stop("Expected character vector for argv"))
        ELSE IF RunCheck # ""
        THEN OnlyOutcome(Stop(RunCheck))
        ELSE /\ m_finalized' = RunMarksFinalizedFirst
             /\ execStarted' = execStarted + 1
             /\ stack' = Append(stack, Frame("run", NULL, 0, call))
             /\ runResult' = "running"
             /\ last' = call
             /\ UNCHANGED << r_function_holder,
                             loaded, routines, tpRoutines, global_registry,
                             benchmarks, live, freed, handles, summaries >>

\* ------------------------------------------------- the run, engine's steps
\* What the run made: gone when the option parser and its clones go.
RunObjects == {o \in live : o[1] \in {"clone", "state", "sstream", "launch", "lstream"}}

RunFailures == {"nvbench run failed", "Unknown exception while running nvbench benchmarks"}

\* The run frame at position n of the stack ends, everything above it is
\* already gone.  msg = "": normal return; otherwise the catch handler's
\* Rcpp::stop.
RunEnds(n, msg) ==
  /\ stack' = SubSeq(stack, 1, n - 1)
  /\ live' = live \ RunObjects
  /\ r_function_holder' =
       HolderDestroys(r_function_holder,
                      Cardinality({o \in live : o[1] = "clone"}))
  /\ summaries' = {}
  /\ runResult' = (IF msg = "" THEN "ok" ELSE "failed")
  /\ m_finalized' = (m_finalized \/ (~RunMarksFinalizedFirst /\ msg = ""))
  /\ last' = [stack[n].call EXCEPT !.status = IF msg = "" THEN "ok" ELSE "error",
                                    !.msg = msg]

\* initialize() and parser.parse(argv): the parser clones the benchmarks.
EngineParse ==
  /\ stack # << >> /\ Top.k = "run" /\ Top.i = 0
  /\ stack' = [stack EXCEPT ![Len(stack)].i = 1]
  /\ live' = live \cup {CloneObj(j) : j \in 1 .. Len(benchmarks)}
  /\ r_function_holder' = HolderCopies(r_function_holder, Len(benchmarks))
  /\ UNCHANGED << runResult, loaded, routines, tpRoutines, global_registry, m_finalized,
                  benchmarks, freed, handles, execStarted, summaries, last >>

\* Anything inside the try block throws: std::exception or not.
EngineThrows ==
  /\ stack # << >> /\ Top.k = "run"
  /\ \E msg \in RunFailures : RunEnds(Len(stack), msg)
  /\ UNCHANGED << loaded, routines, tpRoutines, global_registry, benchmarks,
                  freed, handles, execStarted >>

\* The engine makes the state of the next benchmark and calls
\* r_function_holder::operator(), which wraps it and calls the host function.
EngineInvoke ==
  /\ stack # << >> /\ Top.k = "run" /\ Top.i >= 1 /\ Top.i <= Len(benchmarks)
  /\ live' = live \cup {StateObj(Top.i), StateStream(Top.i)}
  /\ stack' = Append(stack, Frame("cb", StateObj(Top.i), 0, NoCall))
  /\ UNCHANGED << r_function_holder,
                  runResult, loaded, routines, tpRoutines, global_registry, m_finalized,
                  benchmarks, freed, handles, execStarted, summaries, last >>

\* The objects a state owns.
StateParts(s) == {s, <<"sstream", s[2]>>}

\* The host function returns, or fails and the engine skips the state; the
\* engine lets the state go now or at the end of the run.
CallbackReturn ==
  /\ stack # << >> /\ Top.k = "cb"
  /\ Keep(FrameHandle(Top))
  /\ \E destroy \in BOOLEAN :
       /\ live' = IF destroy THEN live \ StateParts(Top.obj) ELSE live
       /\ summaries' = IF destroy THEN {p \in summaries : p[1] # Top.obj}
                       ELSE summaries
  /\ stack' = [Pop EXCEPT ![Len(stack) - 1].i = @ + 1]
  /\ UNCHANGED << r_function_holder,
                  runResult, loaded, routines, tpRoutines, global_registry, m_finalized,
                  benchmarks, freed, execStarted, last >>

\* The host function fails and the exception reaches run's catch handlers.
CallbackThrows ==
  /\ stack # << >> /\ Top.k = "cb"
  /\ Keep(FrameHandle(Top))
  /\ \E msg \in RunFailures : RunEnds(Len(stack) - 1, msg)
  /\ UNCHANGED << loaded, routines, tpRoutines, global_registry, benchmarks,
                  freed, execStarted >>

\* Every benchmark has run; the results are printed and run returns.
EngineFinish ==
  /\ stack # << >> /\ Top.k = "run" /\ Top.i > Len(benchmarks)
  /\ RunEnds(Len(stack), "")
  /\ UNCHANGED << loaded, routines, tpRoutines, global_registry, benchmarks,
                  freed, handles, execStarted >>

\* ------------------------------------------------- entry points on handles
\* The reference is used: its object must exist and be of the type the
\* entry point takes it for.
Usable(ref, kinds) == ref \in live /\ ref[1] \in kinds

BenchKinds == {"bench", "clone"}

\* The outcome of an entry point that dereferences an address whose object
\* is gone or is of another kind: undefined behaviour.
Dangling(e, arg, want, ref) == Outcome(e, "ub", "", FALSE, arg, want, ref, NilVal)

nvbenchr_benchmark_set_name(bench, name) ==
  /\ HostInControl
  /\ LET e == "nvbenchr_benchmark_set_name"
         u == bench_from_xptr(bench)
     IN IF ~u.ok
        THEN OnlyOutcome(Rejected(e, u.msg, bench, "nvbench_benchmark"))
        ELSE IF ~as_string(name)
        THEN OnlyOutcome(Outcome(e, "error", "Expected string for name", FALSE,
                                 bench, "nvbench_benchmark", u.ref, NilVal))
        ELSE IF ~Usable(u.ref, BenchKinds)
        THEN OnlyOutcome(Dangling(e, bench, "nvbench_benchmark", u.ref))
        ELSE /\ benchmarks' = [i \in DOMAIN benchmarks |->
                                 IF benchmarks[i].id = u.ref
                                 THEN [benchmarks[i] EXCEPT !.name = name.v]
                                 ELSE benchmarks[i]]
             /\ last' = Outcome(e, "ok", "", TRUE, bench, "nvbench_benchmark",
                                u.ref, bench)
             /\ UNCHANGED << r_function_holder,
                             runResult, loaded, routines, tpRoutines, global_registry,
                             m_finalized, live, freed, handles, stack,
                             execStarted, summaries >>

\* state.get_int64 throws when the state has no such axis value.
nvbenchr_state_get_int64(state, name) ==
  /\ HostInControl
  /\ LET e == "nvbenchr_state_get_int64"
         u == state_from_xptr(state)
     IN IF ~u.ok
        THEN OnlyOutcome(Rejected(e, u.msg, state, "nvbench_state"))
        ELSE IF ~as_string(name)
        THEN OnlyOutcome(Outcome(e, "error", "Expected string for name", FALSE,
                                 state, "nvbench_state", u.ref, NilVal))
        ELSE IF ~Usable(u.ref, {"state"})
        THEN OnlyOutcome(Dangling(e, state, "nvbench_state", u.ref))
        ELSE \E found \in BOOLEAN :
               OnlyOutcome(Outcome(e, IF found THEN "ok" ELSE "escaped", "", TRUE,
                                   state, "nvbench_state", u.ref,
                                   IF found THEN NumVal ELSE NilVal))

\* A call that returns a new handle and changes nothing else.
Returns(o) ==
  /\ last' = o
  /\ Keep(o.out)
  /\ UNCHANGED << r_function_holder,
                  runResult, loaded, routines, tpRoutines, global_registry, m_finalized,
                  benchmarks, live, freed, stack, execStarted, summaries >>

nvbenchr_state_get_stream(state) ==
  /\ HostInControl
  /\ LET e == "nvbenchr_state_get_stream"
         u == state_from_xptr(state)
     IN IF ~u.ok
        THEN OnlyOutcome(Rejected(e, u.msg, state, "nvbench_state"))
        ELSE IF ~Usable(u.ref, {"state"})
        THEN OnlyOutcome(Dangling(e, state, "nvbench_state", u.ref))
        ELSE Returns(Outcome(e, "ok", "", TRUE, state, "nvbench_state", u.ref,
                             wrap_stream_xptr(<<"sstream", u.ref[2]>>, state.scope)))

nvbenchr_state_get_benchmark(state) ==
  /\ HostInControl
  /\ LET e == "nvbenchr_state_get_benchmark"
         u == state_from_xptr(state)
     IN IF ~u.ok
        THEN OnlyOutcome(Rejected(e, u.msg, state, "nvbench_state"))
        ELSE IF ~Usable(u.ref, {"state"})
        THEN OnlyOutcome(Dangling(e, state, "nvbench_state", u.ref))
        ELSE Returns(Outcome(e, "ok", "", TRUE, state, "nvbench_state", u.ref,
                             WrapPtr(<<"clone", u.ref[2]>>, "nvbench_benchmark",
                                     state.scope)))

nvbenchr_launch_get_stream(launch) ==
  /\ HostInControl
  /\ LET e == "nvbenchr_launch_get_stream"
         u == launch_from_xptr(launch)
     IN IF ~u.ok
        THEN OnlyOutcome(Rejected(e, u.msg, launch, "nvbench_launch"))
        ELSE IF ~Usable(u.ref, {"launch"})
        THEN OnlyOutcome(Dangling(e, launch, "nvbench_launch", u.ref))
        ELSE Returns(Outcome(e, "ok", "", TRUE, launch, "nvbench_launch", u.ref,
                             wrap_stream_xptr(<<"lstream", u.ref[2]>>, launch.scope)))

nvbenchr_stream_addressof(stream) ==
  /\ HostInControl
  /\ LET e == "nvbenchr_stream_addressof"
         u == stream_from_xptr(stream)
     IN IF ~u.ok
        THEN OnlyOutcome(Rejected(e, u.msg, stream, "nvbench_stream"))
        ELSE IF ~Usable(u.ref, {"sstream", "lstream"})
        THEN OnlyOutcome(Dangling(e, stream, "nvbench_stream", u.ref))
        ELSE OnlyOutcome(Outcome(e, "ok", "", TRUE, stream, "nvbench_stream",
                                 u.ref, NumVal))

\* The summary is added to the state before the type of value is looked at.
nvbenchr_state_add_summary(state, name, value) ==
  /\ HostInControl
  /\ LET e == "nvbenchr_state_add_summary"
         u == state_from_xptr(state)
         msg == CASE value.t \in {"INTSXP", "REALSXP"} -> ""
                  [] value.t = "STRSXP" ->
                       IF as_string(value) THEN "" ELSE "Expected string for value"
                  [] OTHER -> "Unsupported value type for add_summary"
     IN IF ~u.ok
        THEN OnlyOutcome(Rejected(e, u.msg, state, "nvbench_state"))
        ELSE IF ~as_string(name)
        THEN OnlyOutcome(Outcome(e, "error", "Expected string for name", FALSE,
                                 state, "nvbench_state", u.ref, NilVal))
        ELSE IF ~Usable(u.ref, {"state"})
        THEN OnlyOutcome(Dangling(e, state, "nvbench_state", u.ref))
        ELSE /\ summaries' = summaries \cup {<<u.ref, name.v>>}
             /\ last' = With(Outcome(e, IF msg = "" THEN "ok" ELSE "error", msg,
                                     TRUE, state, "nvbench_state", u.ref, NilVal),
                             <<name, value>>)
             /\ UNCHANGED << r_function_holder,
                             runResult, loaded, routines, tpRoutines, global_registry,
                             m_finalized, benchmarks, live, freed, handles,
                             stack, execStarted >>

\* ------------------------------------------------------------- state.exec
\* Rcpp::as<bool> of a value that converts.
BoolOf(s) == s.v \in {"TRUE", "1"}

\* The four branches with the test of batched_v reversed.
ExecTagBatchedReversed(batched_v, sync_v) ==
  IF sync_v
  THEN IF batched_v THEN {"sync", "no_batch"} ELSE {"sync"}
  ELSE IF batched_v THEN {"no_batch"} ELSE {}

\* The exec_tag the four branches of nvbenchr_state_exec pass.
ExecTag(batched_v, sync_v) ==
  IF sync_v
  THEN IF batched_v THEN {"sync"} ELSE {"sync", "no_batch"}
  ELSE IF batched_v THEN {} ELSE {"no_batch"}

LaunchParts(l) == {l, <<"lstream", l[2]>>}

nvbenchr_state_exec(state, launcher_fn, batched, sync) ==
  /\ HostInControl
  /\ LET e == "nvbenchr_state_exec"
         u == state_from_xptr(state)
         l == LaunchObj(ExecDepth + 1)
         args == <<launcher_fn, batched, sync>>
     IN IF ~IsFunction(launcher_fn)
        THEN OnlyOutcome(With(Rejected(e, "exec expects a function", state,
                                       "nvbench_state"), args))
        ELSE IF ~u.ok
        THEN OnlyOutcome(With(Rejected(e, u.msg, state, "nvbench_state"), args))
        ELSE IF ~as_bool(batched)
        THEN OnlyOutcome(With(Outcome(e, "error", "Expected logical for batched",
                                      FALSE, state, "nvbench_state", u.ref, NilVal),
                              args))
        ELSE IF ~as_bool(sync)
        THEN OnlyOutcome(With(Outcome(e, "error", "Expected logical for sync",
                                      FALSE, state, "nvbench_state", u.ref, NilVal),
                              args))
        ELSE IF ~Usable(u.ref, {"state"})
        THEN OnlyOutcome(With(Dangling(e, state, "nvbench_state", u.ref), args))
        ELSE LET call == [Outcome(e, "running", "", TRUE, state, "nvbench_state",
                                  u.ref, NilVal)
                            EXCEPT !.tag = ExecTag(BoolOf(batched), BoolOf(sync)),
                                   !.args = args]
             IN /\ ExecDepth < MaxExec
                /\ live' = live \cup LaunchParts(l)
                /\ stack' = Append(stack, Frame("exec", l, 0, call))
                /\ last' = call
                /\ UNCHANGED << r_function_holder,
                                runResult, loaded, routines, tpRoutines, global_registry,
                                m_finalized, benchmarks, freed, handles,
                                execStarted, summaries >>

\* The engine calls cpp_launcher, which wraps the launch and calls the host
\* function; it does so as often as its measurement needs.
ExecInvoke ==
  /\ stack # << >> /\ Top.k = "exec"
  /\ stack' = Append(stack, Frame("launcher", Top.obj, 0, NoCall))
  /\ UNCHANGED << r_function_holder,
                  runResult, loaded, routines, tpRoutines, global_registry, m_finalized,
                  benchmarks, live, freed, handles, execStarted, summaries,
                  last >>

LauncherReturn ==
  /\ stack # << >> /\ Top.k = "launcher"
  /\ Keep(FrameHandle(Top))
  /\ stack' = Pop
  /\ UNCHANGED << r_function_holder,
                  runResult, loaded, routines, tpRoutines, global_registry, m_finalized,
                  benchmarks, live, freed, execStarted, summaries, last >>

\* state.exec is over, by return or by an exception, which nvbenchr_state_exec
\* does not catch; the launch goes with the measurement.
ExecEnds(n, status) ==
  /\ stack' = SubSeq(stack, 1, n - 1)
  /\ live' = live \ LaunchParts(stack[n].obj)
  /\ last' = [stack[n].call EXCEPT !.status = status]
  /\ UNCHANGED << r_function_holder,
                  runResult, loaded, routines, tpRoutines, global_registry, m_finalized,
                  benchmarks, freed, execStarted, summaries >>

\* The host launcher fails: the exception passes through state.exec.
LauncherThrows ==
  /\ stack # << >> /\ Top.k = "launcher"
  /\ Keep(FrameHandle(Top))
  /\ ExecEnds(Len(stack) - 1, "escaped")

ExecReturn ==
  /\ stack # << >> /\ Top.k = "exec"
  /\ \E status \in {"ok", "escaped"} : ExecEnds(Len(stack), status)
  /\ UNCHANGED handles

\* ------------------------------------------------------ garbage collection
\* The host runtime collects a handle host code no longer keeps; a delete
\* finalizer, had the handle one, would run now.
Discard(h) ==
  /\ handles' = handles \ {h}
  /\ live' = IF h.fin THEN live \ {h.addr} ELSE live
  /\ freed' = IF h.fin /\ h.addr \in live THEN freed \cup {h.addr} ELSE freed
  /\ last' = Outcome("R_gc", "ok", "", FALSE, h, "", NULL, NilVal)
  /\ UNCHANGED << r_function_holder,
                  runResult, loaded, routines, tpRoutines, global_registry, m_finalized,
                  benchmarks, stack, execStarted, summaries >>

\* ------------------------------------------------------------ specification
\* The (name, value) pairs given to add_summary and the (launcher_fn, batched,
\* sync) triples given to exec.
SummaryArgs ==
  { <<NumVal, IntVal>>, <<Str("a"), IntVal>>, <<Str("a"), StrVec2>>,
    <<Str("a"), LglVal(TRUE)>> }

ExecArgs ==
  { <<NumVal, LglVal(TRUE), LglVal(TRUE)>>, <<FnVal, NilVal, LglVal(TRUE)>>,
    <<FnVal, LglVal(TRUE), LglVal(FALSE)>> }

\* Load, registration and the run with its benchmark callbacks.
Next ==
  \/ R_init_nvbenchr
  \/ R_init_nvbenchr_throughput
  \/ \E fn \in {FnVal, NumVal}, name \in {Str(""), Str("a"), NumVal} :
       nvbenchr_register(fn, name)
  \/ \E argv \in {StrVec2, NumVal} : nvbenchr_run_all_benchmarks(argv)
  \/ EngineParse
  \/ EngineThrows
  \/ EngineInvoke
  \/ CallbackReturn
  \/ CallbackThrows
  \/ EngineFinish

Spec == Init /\ [][Next]_vars

\* One benchmark registered and run with well-formed arguments, and what
\* host code does with handles inside and outside the callbacks.
NextHandles ==
  \/ R_init_nvbenchr
  \/ (benchmarks = << >> /\ nvbenchr_register(FnVal, Str("a")))
  \/ nvbenchr_run_all_benchmarks(StrVec2)
  \/ EngineParse
  \/ EngineThrows
  \/ EngineInvoke
  \/ CallbackReturn
  \/ CallbackThrows
  \/ EngineFinish
  \/ \E h \in HandleArgs, name \in {Str("a"), NumVal} : nvbenchr_benchmark_set_name(h, name)
  \/ \E h \in HandleArgs, name \in {Str("a"), NumVal} : nvbenchr_state_get_int64(h, name)
  \/ \E h \in HandleArgs : nvbenchr_state_get_stream(h)
  \/ \E h \in HandleArgs : nvbenchr_state_get_benchmark(h)
  \/ \E h \in HandleArgs : nvbenchr_launch_get_stream(h)
  \/ \E h \in HandleArgs : nvbenchr_stream_addressof(h)
  \/ \E h \in HandleArgs, a \in SummaryArgs : nvbenchr_state_add_summary(h, a[1], a[2])
  \/ \E h \in HandleArgs, a \in ExecArgs : nvbenchr_state_exec(h, a[1], a[2], a[3])
  \/ ExecInvoke
  \/ LauncherReturn
  \/ LauncherThrows
  \/ ExecReturn
  \/ \E h \in handles : Discard(h)

SpecHandles == Init /\ [][NextHandles]_vars

\* The (launcher_fn, batched, sync) triples of every combination of the two
\* flags, of a launcher that is no function and of a flag that is no logical.
ExecArgsAll ==
  {<<FnVal, LglVal(b), LglVal(s)>> : b, s \in BOOLEAN}
    \cup {<<NumVal, LglVal(b), LglVal(s)>> : b, s \in BOOLEAN}
    \cup {<<FnVal, NilVal, LglVal(TRUE)>>, <<FnVal, LglVal(TRUE), NilVal>>}

\* One benchmark registered and run; its callback calls state.exec.
NextExec ==
  \/ R_init_nvbenchr
  \/ (benchmarks = << >> /\ nvbenchr_register(FnVal, Str("a")))
  \/ nvbenchr_run_all_benchmarks(StrVec2)
  \/ EngineParse
  \/ EngineThrows
  \/ EngineInvoke
  \/ CallbackReturn
  \/ CallbackThrows
  \/ EngineFinish
  \/ \E h \in HandleArgs, a \in ExecArgsAll : nvbenchr_state_exec(h, a[1], a[2], a[3])
  \/ ExecInvoke
  \/ LauncherReturn
  \/ LauncherThrows
  \/ ExecReturn

SpecExec == Init /\ [][NextExec]_vars

\* ------------------------------------------------------------------ claims
RegisterCall == last.entry = "nvbenchr_register"
RunCall == last.entry = "nvbenchr_run_all_benchmarks"
\* The call was turned away before it did anything.
TurnedAway == last.status = "error" /\ ~last.lib

\* C1 as stated: the benchmark execution is started at most once, and every
\* run attempt made once the registry is finalized is rejected with
\* 'Benchmarks already executed' without starting the execution.
C1_AlreadyExecutedAlways ==
  /\ execStarted <= 1
  /\ (RunCall /\ last.pre.fin) =>
       (TurnedAway /\ last.msg = "Benchmarks already executed")

\* C1 amended: the benchmark execution is started at most once, and every
\* run attempt made once the registry is finalized is rejected without
\* starting the execution: with 'Benchmarks already executed' when argv is a
\* character vector, with the failed conversion of argv otherwise.
C1_AtMostOneRun ==
  /\ execStarted <= 1
  /\ (RunCall /\ last.pre.fin) =>
       /\ TurnedAway
       /\ last.msg = IF as_string_vec(last.args[1])
                     THEN "Benchmarks already executed"
                     ELSE "Expected character vector for argv"

\* A second run attempt made from inside a benchmark callback of the run in
\* progress, turned away.
C1_Witness ==
  /\ RunCall /\ last.pre.fin /\ last.msg = "Benchmarks already executed"
  /\ stack # << >>
  /\ execStarted = 1

\* C2 as stated: every nvbenchr_register call made once the registry is
\* finalized is rejected with 'Cannot register benchmarks after execution' and
\* adds no benchmark.
C2_CannotRegisterAlways ==
  (RegisterCall /\ last.pre.fin) =>
    /\ TurnedAway
    /\ last.msg = "Cannot register benchmarks after execution"
    /\ Len(benchmarks) = last.pre.nb

\* C2 amended: every nvbenchr_register call made once the registry is
\* finalized is rejected and adds no benchmark: with 'Cannot register
\* benchmarks after execution' when the name is a single string (whatever fn
\* is), with the failed conversion of the name otherwise.
C2_NoRegistrationAfterRun ==
  (RegisterCall /\ last.pre.fin) =>
    /\ TurnedAway
    /\ last.msg = IF as_string(last.args[2])
                  THEN "Cannot register benchmarks after execution"
                  ELSE "Expected string for name"
    /\ Len(benchmarks) = last.pre.nb

\* A registration attempted from inside a benchmark callback, turned away.
C2_Witness ==
  /\ RegisterCall /\ last.pre.fin
  /\ last.msg = "Cannot register benchmarks after execution"
  /\ stack # << >> /\ Top.k = "cb"

\* C8: without a registry every register and run call raises 'nvbenchr
\* registry is not initialized' whatever its arguments, no benchmark is added
\* and no run started; a successful initialization leaves a registry that is
\* not finalized.
C8_UnregisteredRegistry ==
  /\ ((RegisterCall \/ RunCall) /\ ~last.pre.reg) =>
       (TurnedAway /\ last.msg = "nvbenchr registry is not initialized")
  /\ ~global_registry =>
       (benchmarks = << >> /\ execStarted = 0 /\ ~m_finalized /\ stack = << >>)
  /\ (last.entry = "R_init_nvbenchr" /\ last.status = "ok") =>
       (global_registry /\ ~m_finalized)

\* A registration with a name that is no string, made without a registry:
\* the registry test comes first.
C8_Witness ==
  /\ RegisterCall /\ ~last.pre.reg
  /\ ~as_string(last.args[2])
  /\ last.msg = "nvbenchr registry is not initialized"

\* Every function of fns has exactly one entry among the first n of the
\* table, under its own name and with its number of parameters; no other
\* name is entered and none twice; the one NULL entry is the last.
TableConsistent(table, fns) ==
  /\ table[Len(table)].name = "NULL"
  /\ \A i \in 1 .. Len(table) - 1 : table[i].name # "NULL"
  /\ \A i, j \in 1 .. Len(table) - 1 : table[i].name = table[j].name => i = j
  /\ \A i \in 1 .. Len(table) - 1 :
       \E f \in fns : /\ f.name = table[i].name
                      /\ f.name = table[i].fun
                      /\ f.params = table[i].numArgs
  /\ \A f \in fns : \E i \in 1 .. Len(table) - 1 : table[i].name = f.name

CallEntriesConsistent == TableConsistent(CallEntries, ExportedFunctions)

ThroughputCallEntriesConsistent ==
  TableConsistent(ThroughputCallEntries, ThroughputFunctions)

\* C9: the table the host runtime took at load maps every exported function
\* once, under its own name, with its arity, and ends with the one NULL
\* entry, and every entry before it was registered; so does the table of
\* the throughput example.
C9_EntryPointTable ==
  /\ loaded => (routines = Len(CallEntries) - 1 /\ CallEntriesConsistent)
  /\ tpRoutines # 0 =>
       /\ tpRoutines = Len(ThroughputCallEntries) - 1
       /\ ThroughputCallEntriesConsistent

\* Both libraries loaded.
C9_Witness ==
  /\ loaded /\ routines = Cardinality(ExportedFunctions)
  /\ tpRoutines = Cardinality(ThroughputFunctions)

\* C10: the registry is finalized before the execution begins; a failed run
\* is reported with one of the two messages of run's catch handlers, is not
\* started again, leaves the registry finalized, and every later register or
\* run attempt is rejected.
C10_FailedRunConsumesTheUse ==
  /\ runResult = "running" => m_finalized
  /\ runResult = "failed" =>
       /\ m_finalized
       /\ execStarted = 1
       /\ (RegisterCall \/ RunCall) => last.status = "error"
       /\ (RunCall /\ last.lib) => last.msg \in RunFailures

\* After a failed run, a registration attempt turned away.
C10_Witness ==
  /\ runResult = "failed"
  /\ RegisterCall /\ TurnedAway
  /\ last.msg = "Cannot register benchmarks after execution"

\* ------------------------------------------------------- claims on handles
IsHandle(x) == x.t = "EXTPTRSXP"

\* C3: a handle whose class tag is not the class the entry point asks for is
\* rejected: no native reference is yielded, the external library is not
\* called and no handle is returned; an unwrap yields a reference only for a
\* handle tagged with the class asked for.
C3_ClassTagsChecked ==
  /\ (last.want # "" /\ IsHandle(last.arg) /\ last.arg.cls # last.want) =>
       (TurnedAway /\ last.ref = NULL /\ ~IsHandle(last.out))
  /\ (last.ref # NULL => (IsHandle(last.arg) /\ last.arg.cls = last.want))

\* A stream handle given where a launch handle is asked for, from inside a
\* launcher callback.
C3_Witness ==
  /\ last.entry = "nvbenchr_launch_get_stream"
  /\ last.arg.cls = "nvbench_stream" /\ last.arg.addr # NULL
  /\ TurnedAway /\ last.msg = "Unexpected pointer class"
  /\ stack # << >> /\ Top.k = "launcher"

\* C4: no handle carries a delete finalizer and nothing is ever deallocated
\* through a handle: a discarded handle leaves its native object as it was.
C4_HandlesNeverOwn ==
  /\ freed = {}
  /\ \A h \in HeldHandles : ~h.fin
  /\ (IsHandle(last.out) => ~last.out.fin)

\* The host runtime has collected a state handle during the state's callback;
\* the state is still there.
C4_Witness ==
  /\ last.entry = "R_gc"
  /\ last.arg.cls = "nvbench_state"
  /\ last.arg.addr \in live
  /\ stack # << >>

EntryPoints ==
  {CallEntries[i].name : i \in 1 .. Len(CallEntries) - 1}

\* C5 as stated: no exception of the external library or of a callback leaves
\* an entry point as it was thrown.
C5_AllFailuresConverted ==
  last.entry \in EntryPoints => last.status # "escaped"

\* C6 as stated: an entry point that ends in a validation error has made no
\* call into the external library; add_summary with a value of an unsupported
\* type leaves the summaries of the state as they were.
C6_ValidationBeforeLibrary ==
  (last.status = "error" /\ last.msg \notin RunFailures) =>
    /\ ~last.lib
    /\ (last.entry = "nvbenchr_state_add_summary" /\ last.ref # NULL) =>
         (<<last.ref, last.args[1].v>> \notin summaries)

\* C7 as stated: whenever an entry point unwraps a handle, the native object
\* is live.
C7_UnwrappedIsLive ==
  last.ref # NULL => last.refLive

\* C7 amended: whenever an entry point unwraps a handle while the callback
\* that received it (or the handle it was obtained from) is still on the
\* stack, the native object is live.
C7_LiveWithinCallback ==
  (last.ref # NULL /\ last.inScope) => last.refLive

\* The stream handle obtained from a launch handle, unwrapped inside the
\* launcher callback that received the launch.
C7_Witness ==
  /\ last.entry = "nvbenchr_stream_addressof"
  /\ last.status = "ok" /\ last.inScope
  /\ last.arg.scope[1] = "launch"
  /\ last.refLive

\* ------------------------------------------- claims on register and run
\* A run call that got past the registry test and the conversion of argv
\* while the benchmark list was empty.
EmptyRun ==
  RunCall /\ last.pre.reg /\ last.pre.nb = 0 /\ as_string_vec(last.args[1])

\* C11 as stated: every run attempt made on the registry while the benchmark
\* list is empty is rejected with 'No benchmarks registered'.
C11_EmptyRunAlwaysNamed ==
  (RunCall /\ last.pre.reg /\ last.pre.nb = 0) =>
    (TurnedAway /\ last.msg = "No benchmarks registered")

\* C11 amended: a run attempt with a character-vector argv on an existing
\* registry whose benchmark list is empty is rejected with 'No benchmarks
\* registered', whatever the finalized flag; it starts no execution and does
\* not finalize the registry; the registration that follows it is accepted,
\* and a run attempt with a character-vector argv on a non-finalized registry
\* with at least one benchmark is accepted.
C11_EmptyRunRejected ==
  [][ /\ EmptyRun' =>
           /\ TurnedAway' /\ last'.msg = "No benchmarks registered"
           /\ ~m_finalized' /\ execStarted' = 0 /\ runResult' = "none"
           /\ stack' = << >>
      /\ (EmptyRun /\ RegisterCall' /\ IsFunction(last'.args[1])
            /\ as_string(last'.args[2])) =>
           (last'.status = "ok" /\ Len(benchmarks') = 1 /\ ~m_finalized')
      /\ (RunCall' /\ last'.pre.reg /\ last'.pre.nb > 0 /\ ~last'.pre.fin
            /\ as_string_vec(last'.args[1])) =>
           (last'.lib /\ execStarted' = 1 /\ m_finalized') ]_vars

\* A rejected run on the empty list of an existing registry.
C11_Witness ==
  /\ EmptyRun /\ TurnedAway /\ last.msg = "No benchmarks registered"
  /\ global_registry /\ benchmarks = << >> /\ ~m_finalized

\* A register call on a ready registry: it exists and was not finalized.
ReadyRegister == RegisterCall /\ last.pre.reg /\ ~last.pre.fin

\* C12 as stated: on a ready registry, register raises 'Benchmark must be a
\* function' whenever its first argument is not a function, and appends the
\* benchmark and returns its handle whenever it is.
C12_RegisterByFunctionOnly ==
  ReadyRegister =>
    IF ~IsFunction(last.args[1])
    THEN TurnedAway /\ last.msg = "Benchmark must be a function"
    ELSE last.status = "ok" /\ IsHandle(last.out)

\* C12 amended: on a ready registry and with a name that is a single string,
\* register raises 'Benchmark must be a function' and leaves the benchmark
\* list as it was when its first argument is not a function; otherwise it
\* appends exactly one new benchmark, named as given or 'benchmark' for the
\* empty string, and returns a non-owning handle of the benchmark class that
\* holds the address of that benchmark.  The finalized flag is unchanged.
C12_RegisterOnReadyRegistry ==
  [][ (ReadyRegister' /\ last' # last /\ as_string(last'.args[2])) =>
        /\ m_finalized' = m_finalized
        /\ execStarted' = execStarted
        /\ IF ~IsFunction(last'.args[1])
           THEN /\ TurnedAway' /\ last'.msg = "Benchmark must be a function"
                /\ benchmarks' = benchmarks
                /\ ~IsHandle(last'.out)
           ELSE /\ last'.status = "ok"
                /\ Len(benchmarks') = Len(benchmarks) + 1
                /\ SubSeq(benchmarks', 1, Len(benchmarks)) = benchmarks
                /\ LET b == benchmarks'[Len(benchmarks')]
                   IN /\ b.name = (IF last'.args[2].v = "" THEN "benchmark"
                                  ELSE last'.args[2].v)
                      /\ \A i \in DOMAIN benchmarks : benchmarks[i].id # b.id
                      /\ b.id \in live'
                      /\ last'.out = Xptr("nvbench_benchmark", b.id, FALSE, NoScope) ]_vars

\* A second benchmark registered under the empty name.
C12_Witness ==
  /\ ReadyRegister /\ last.status = "ok"
  /\ last.args[2].v = "" /\ Len(benchmarks) = 2
  /\ benchmarks[2].name = "benchmark"
  /\ last.out.addr = benchmarks[2].id

\* ------------------------------------------------------- claims on exec
ExecCall == last.entry = "nvbenchr_state_exec"

\* The step calls state.exec of the external library.
ExecCalled == Len(stack') = Len(stack) + 1 /\ Top'.k = "exec"

\* C13: a call with a launcher that is no function raises 'exec expects a
\* function' and does not call exec; a call that reaches the library calls
\* exec exactly once, with a tag that holds sync iff sync is true, no_batch
\* iff batched is false, and nothing else; exec is called by no other step
\* and by no call that ends in an error of the binding.
C13_ExecTagFromFlags ==
  [][ /\ (ExecCall' /\ ~IsFunction(last'.args[1])) =>
           /\ TurnedAway' /\ last'.msg = "exec expects a function"
           /\ ~ExecCalled
      /\ (ExecCall' /\ last'.status = "error") => (~last'.lib /\ ~ExecCalled)
      /\ (ExecCall' /\ last'.lib) =>
           /\ IsFunction(last'.args[1])
           /\ "sync" \in last'.tag <=> last'.args[3].v = "TRUE"
           /\ "no_batch" \in last'.tag <=> last'.args[2].v = "FALSE"
           /\ last'.tag \subseteq {"sync", "no_batch"}
      /\ ExecCalled =>
           /\ ExecCall' /\ last'.lib /\ last'.status = "running"
           /\ Top'.call = last'
           /\ ExecDepth' = ExecDepth + 1
      /\ ExecDepth' <= ExecDepth + 1 ]_vars

\* exec was called with batched false and sync false, and has returned.
C13_Witness ==
  /\ ExecCall /\ last.status = "ok"
  /\ last.args[2].v = "FALSE" /\ last.args[3].v = "FALSE"
  /\ last.tag = {"no_batch"}

\* ---------------------------------------------- wrap_ptr and unwrap_ptr
\* The class names the binding wraps and unwraps with.
ClassTags ==
  {"nvbench_benchmark", "nvbench_state", "nvbench_launch", "nvbench_stream"}

\* Non-null native addresses.
Pointers ==
  {BenchObj(i) : i \in 1 .. MaxBenchmarks}
    \cup {StateObj(1), StateStream(1), LaunchObj(1), LaunchStream(1)}

\* wrap_ptr(ptr, cls_name): the handle goes to the host, which keeps it.
wrap_ptr(ptr, cls_name) ==
  /\ Cardinality(handles) < MaxHandles
  /\ handles' = handles \cup {WrapPtr(ptr, cls_name, NoScope)}
  /\ last' = Outcome("wrap_ptr", "ok", "", FALSE, NilVal, cls_name, ptr,
                     WrapPtr(ptr, cls_name, NoScope))
  /\ UNCHANGED << r_function_holder,
                  runResult, loaded, routines, tpRoutines, global_registry,
                  m_finalized, benchmarks, live, freed, stack, execStarted,
                  summaries >>

\* unwrap_ptr(obj, expected_class): the reference, or Rcpp::stop.
unwrap_ptr(obj, expected_class) ==
  LET u == UnwrapPtr(obj, expected_class)
  IN OnlyOutcome(Outcome("unwrap_ptr", IF u.ok THEN "ok" ELSE "error", u.msg,
                         FALSE, obj, expected_class, u.ref, NilVal))

\* The values the host passes where a handle is expected: handles it was
\* given, a handle stripped of its class, a handle restored with a null
\* address, a number.
NextWrap ==
  \/ \E p \in Pointers, t \in ClassTags : wrap_ptr(p, t)
  \/ \E obj \in handles \cup {Unclassed, Restored, NumVal}, t \in ClassTags :
       unwrap_ptr(obj, t)
  \/ \E h \in handles : Discard(h)

SpecWrap == Init /\ [][NextWrap]_vars

\* C14: unwrapping, with expected class t, the handle wrap_ptr made of a
\* non-null pointer p with class t yields p; a value that is no external
\* pointer, a handle without class attribute and a handle with a null address
\* are rejected with an error and yield no reference.
C14_WrapUnwrapRoundTrip ==
  last.entry = "unwrap_ptr" =>
    /\ \A p \in Pointers, t \in ClassTags :
         (last.arg = WrapPtr(p, t, NoScope) /\ last.want = t) =>
           (last.status = "ok" /\ last.ref = p)
    /\ (~IsHandle(last.arg) \/ last.arg.cls = "" \/ last.arg.addr = NULL) =>
         (last.status = "error" /\ last.msg # "" /\ last.ref = NULL)

\* A state pointer wrapped as a state handle and unwrapped as one.
C14_Witness ==
  /\ last.entry = "unwrap_ptr" /\ last.status = "ok"
  /\ last.arg = WrapPtr(StateObj(1), "nvbench_state", NoScope)
  /\ last.want = "nvbench_state" /\ last.ref = StateObj(1)

\* ------------------------------------------- claims on callback protection
\* The benchmarks the option parser cloned for the run in progress.
Clones == {o \in live : o[1] = "clone"}

\* C15: the preserve requests outstanding for the registered host function
\* are as many as the r_function_holder objects that exist, one for each
\* registered benchmark and each clone of one; the function is never released
\* more often than preserved, and it is preserved while a registered
\* benchmark exists and while a benchmark callback is being invoked.
C15_CallbackProtectionBalanced ==
  /\ r_function_holder.preserved = r_function_holder.live
  /\ r_function_holder.preserved >= 0
  /\ r_function_holder.live = Len(benchmarks) + Cardinality(Clones)
  /\ benchmarks # << >> => r_function_holder.preserved >= 1
  /\ (\E i \in DOMAIN stack : stack[i].k = "cb") =>
       r_function_holder.preserved >= 1

\* Two benchmarks are registered and cloned, and the callback of the second
\* is being invoked.
C15_Witness ==
  /\ stack # << >> /\ Top.k = "cb" /\ Top.obj = StateObj(2)
  /\ Len(benchmarks) = 2 /\ Cardinality(Clones) = 2
  /\ r_function_holder = [live |-> 4, preserved |-> 4]
====
